---- MODULE Spec2Model ----
(***************************************************************************)
(* Model of .github/scripts/deploy-report.mjs: one CI invocation turns a   *)
(* Figma webhook payload into a changelog commit and a Slack notification. *)
(*                                                                         *)
(* Text is modelled at the granularity the script's regular expressions    *)
(* observe: a changelog is a sequence of lines, and a line is classified   *)
(* by which of the two patterns (/^## (\d+\.\d+\.\d+)/m of readGitHub and  *)
(* /^## \d/m of writeGitHub) it matches.  A decimal string is a pair       *)
(* (leading zeros, value), so that Number() and template formatting are    *)
(* not inverse to each other.  Version numbers stay far below 2^53, the    *)
(* range in which JavaScript's Number arithmetic is exact.                 *)
(***************************************************************************)
EXTENDS Integers, Sequences, FiniteSets, TLC

\* ---------------------------------------------------------------- bounds
MaxRuns == 2          \* invocations in a row on the same branch
MaxLines == 2         \* lines of the changelog before the first invocation
MaxVer == 2           \* largest version component drawn for a heading
MaxFetchLen == 1      \* length of each created/modified list (lookup runs)
MaxGroupLen == 3      \* length of a component bucket (grouping runs)
MaxSlackItems == 22   \* length of a list feeding one notification section

\* ------------------------------------------------------ program constants
MAX_ITEMS == 20
PASSCODE == "ids-changelog-2026"

\* ------------------------------------------------------------- JS values
Undefined == "undefined"

Truthy(v) == v # Undefined /\ v # ""

\* a || b on strings
OrElse(a, b) == IF Truthy(a) THEN a ELSE b

Min(a, b) == IF a < b THEN a ELSE b

\* A decimal string: `zeros` leading "0" characters, then the shortest
\* decimal form of `val`.
NumStr(z, v) == [zeros |-> z, val |-> v]

\* Number(s)
Number(s) == s.val

\* `${n}` for a number n
FormatNumber(n) == NumStr(0, n)

\* "a.b.c".split(".").map(Number)
ParseVersion(vs) == <<Number(vs[1]), Number(vs[2]), Number(vs[3])>>

\* `${a}.${b}.${c}`
FormatVersion(a, b, c) == <<FormatNumber(a), FormatNumber(b), FormatNumber(c)>>

ZeroVersion == FormatVersion(0, 0, 0)

\* ------------------------------------------------------- changelog lines
NoVer == <<>>
\* "## <digits>.<digits>.<digits>...": matched by both patterns
VersionHeading(vs) == [kind |-> "version", ver |-> vs]
\* "## 2 column layout", "## 1.2": matched by /^## \d/m only
DigitHeading == [kind |-> "digit", ver |-> NoVer]
TextLine == [kind |-> "text", ver |-> NoVer]
BlankLine == [kind |-> "blank", ver |-> NoVer]

\* /^## (\d+\.\d+\.\d+)/m matches at this line
MatchesVersionPattern(line) == line.kind = "version"

\* /^## \d/m matches at this line
MatchesDigitPattern(line) == line.kind \in {"version", "digit"}

\* index of the first line carrying a version heading (String.match), 0 if none
VersionMatchIndex(content) ==
  IF \E i \in 1..Len(content) : MatchesVersionPattern(content[i])
  THEN CHOOSE i \in 1..Len(content) :
         /\ MatchesVersionPattern(content[i])
         /\ \A j \in 1..(i - 1) : ~MatchesVersionPattern(content[j])
  ELSE 0

\* changelogContent.search(/^## \d/m), as a line index, 0 for -1
FirstVersionIdx(content) ==
  IF \E i \in 1..Len(content) : MatchesDigitPattern(content[i])
  THEN CHOOSE i \in 1..Len(content) :
         /\ MatchesDigitPattern(content[i])
         /\ \A j \in 1..(i - 1) : ~MatchesDigitPattern(content[j])
  ELSE 0

\* String.prototype.trimEnd, on lines: trailing blank lines go
RECURSIVE TrimEnd(_)
TrimEnd(content) ==
  IF content # <<>> /\ content[Len(content)].kind = "blank"
  THEN TrimEnd(SubSeq(content, 1, Len(content) - 1))
  ELSE content

\* readGitHub's result for a file content
ReadResult(content) ==
  LET i == VersionMatchIndex(content)
  IN [changelogContent |-> content,
      currentVersion |-> IF i # 0 THEN content[i].ver ELSE ZeroVersion]

\* faulty variant: the section always goes to the end
UpdatedChangelogAlwaysAppends(changelogContent, changelogMd) ==
  (IF TrimEnd(changelogContent) = <<>> THEN <<BlankLine, BlankLine>>
   ELSE TrimEnd(changelogContent) \o <<BlankLine>>) \o changelogMd

\* writeGitHub's updatedChangelog
UpdatedChangelog(changelogContent, changelogMd) ==
  LET firstVersionIdx == FirstVersionIdx(changelogContent)
      trimmed == TrimEnd(changelogContent)
  IN IF firstVersionIdx # 0
     THEN SubSeq(changelogContent, 1, firstVersionIdx - 1) \o changelogMd
          \o SubSeq(changelogContent, firstVersionIdx, Len(changelogContent))
     ELSE \* trimmed + "\n\n" + changelogMd
          (IF trimmed = <<>> THEN <<BlankLine, BlankLine>>
           ELSE trimmed \o <<BlankLine>>) \o changelogMd

\* ---------------------------------------------------------------- assets
Asset(name, key) == [name |-> name, key |-> key]

\* The published Figma library the lookups are answered from.
CompKeys == {"c1", "c2", "c3", "c4"}
StyleKeys == {"s1", "s2"}

CompName(key) ==
  CASE key = "c1" -> "Size=Large"
    [] key = "c2" -> "Size=Small"
    [] key = "c3" -> "Icon"
    [] OTHER -> "constructor"

StyleName(key) == IF key = "s1" THEN "Primary" ELSE "Secondary"

CompAsset(key) == Asset(CompName(key), key)
StyleAsset(key) == Asset(StyleName(key), key)
VarAsset(i) == Asset("v" \o ToString(i), "vk" \o ToString(i))

NoMeta ==
  [key |-> Undefined, node_id |-> Undefined,
   containing_component_set |-> Undefined, containingComponentSet |-> Undefined]

\* body of a successful GET /v1/components/<key>
ComponentResponse(key) ==
  [key |-> key, node_id |-> "node:" \o key,
   containing_component_set |-> IF key = "c1" THEN "Button" ELSE Undefined,
   containingComponentSet |-> IF key = "c2" THEN "Button" ELSE Undefined]

\* body of a successful GET /v1/styles/<key>
StyleResponse(key) ==
  [key |-> key, node_id |-> "node:" \o key,
   containing_component_set |-> Undefined, containingComponentSet |-> Undefined]

\* --------------------------------------------------------- 1. parseWebhook
\* process.env.WEBHOOK_PAYLOAD.  `valid` is whether JSON.parse accepts it; the
\* lists are those of `changes`, already at the top level (an absent list is
\* the empty one, as `|| []` reads it).
Payload(valid, event_type, passcode, timestamp, handle, lists) ==
  [valid |-> valid, event_type |-> event_type, passcode |-> passcode,
   timestamp |-> timestamp, handle |-> handle,
   created_variables |-> lists.created_variables,
   deleted_variables |-> lists.deleted_variables,
   modified_variables |-> lists.modified_variables,
   created_styles |-> lists.created_styles,
   deleted_styles |-> lists.deleted_styles,
   modified_styles |-> lists.modified_styles,
   created_components |-> lists.created_components,
   deleted_components |-> lists.deleted_components,
   modified_components |-> lists.modified_components]

\* faulty variant: the passcode is not compared
ParseWebhookIgnoresPasscode(raw) ==
  IF ~raw.valid THEN "throw"
  ELSE IF raw.event_type = "PING" THEN "null"
  ELSE "webhook"

\* parseWebhook: "throw" (JSON.parse), "null" (PING or wrong passcode) or
\* "webhook" (the payload, flattened)
parseWebhook(raw) ==
  IF ~raw.valid THEN "throw"
  ELSE IF raw.event_type = "PING" THEN "null"
  ELSE IF raw.passcode # PASSCODE THEN "null"
  ELSE "webhook"

\* ----------------------------------------------------------- 3. fetchFigma
MapKeys(list) == [i \in 1..Len(list) |-> list[i].key]

componentKeys(webhook) ==
  MapKeys(webhook.created_components \o webhook.modified_components)

styleKeys(webhook) ==
  MapKeys(webhook.created_styles \o webhook.modified_styles)

\* one promise per element of the key list
PendingSlot(key) == [key |-> key, state |-> "pending", meta |-> NoMeta, error |-> Undefined]

PendingSlots(keys) == [i \in 1..Len(keys) |-> PendingSlot(keys[i])]

\* the requests figmaFetch sends for a key list: `/v1/<kind>/<key>`
Requests(kind, keys) == [i \in 1..Len(keys) |-> <<kind, keys[i]>>]

\* faulty variant: figmaFetch(url) without the .catch
UncaughtLookup(kind, key, outcome) ==
  IF outcome = "ok"
  THEN [key |-> key, state |-> "fulfilled",
        meta |-> IF kind = "component" THEN ComponentResponse(key) ELSE StyleResponse(key),
        error |-> Undefined]
  ELSE [key |-> key, state |-> "rejected", meta |-> NoMeta, error |-> "Figma API"]

\* figmaFetch(url).catch((e) => ({ error: e.message, key })), settled with
\* outcome "ok" (res.ok) or "error" (fetch rejected, or a non-ok status)
CaughtLookup(kind, key, outcome) ==
  IF outcome = "ok"
  THEN [key |-> key, state |-> "fulfilled",
        meta |-> IF kind = "component" THEN ComponentResponse(key) ELSE StyleResponse(key),
        error |-> Undefined]
  ELSE [key |-> key, state |-> "fulfilled", meta |-> NoMeta, error |-> "Figma API"]

Outcomes == {"ok", "error"}

\* --------------------------------------------------------- 4. buildReport
\* metas.find((m) => m.meta?.key === key)?.meta
FindMeta(metas, key) ==
  IF \E i \in 1..Len(metas) : metas[i].meta.key = key
  THEN metas[CHOOSE i \in 1..Len(metas) :
               /\ metas[i].meta.key = key
               /\ \A j \in 1..(i - 1) : metas[j].meta.key # key].meta
  ELSE NoMeta

enrichStyle(styleMetas, s) ==
  [name |-> s.name, key |-> s.key, nodeId |-> FindMeta(styleMetas, s.key).node_id]

enrichComp(componentMetas, c) ==
  LET meta == FindMeta(componentMetas, c.key)
  IN [name |-> c.name, key |-> c.key, nodeId |-> meta.node_id,
      setName |-> OrElse(meta.containing_component_set,
                         OrElse(meta.containingComponentSet, c.name))]

deletedComp(c) ==
  [name |-> c.name, key |-> c.key, nodeId |-> Undefined, setName |-> c.name]

\* Property names every object literal inherits from Object.prototype:
\* acc[key] is truthy for them although acc has no such own property.
ObjectPrototypeKeys ==
  {"constructor", "__proto__", "hasOwnProperty", "isPrototypeOf",
   "propertyIsEnumerable", "toLocaleString", "toString", "valueOf"}

HasOwn(acc, key) == \E i \in 1..Len(acc) : acc[i].key = key

\* items.reduce((acc, c) => ..., {}): acc is the list of own properties in
\* insertion order (no grouping key here is an array index)
RECURSIVE GroupReduce(_, _)
GroupReduce(items, acc) ==
  IF items = <<>> THEN acc
  ELSE LET c == Head(items)
           key == OrElse(c.setName, c.name)
           next ==
             IF HasOwn(acc, key)
             THEN [i \in 1..Len(acc) |->
                     IF acc[i].key = key
                     THEN [acc[i] EXCEPT !.value.variantCount = @ + 1]
                     ELSE acc[i]]
             ELSE IF key \in ObjectPrototypeKeys
             THEN acc   \* the ++ lands on the inherited object
             ELSE Append(acc,
                    [key |-> key,
                     value |-> [name |-> c.name, key |-> c.key, nodeId |-> c.nodeId,
                                setName |-> c.setName, variantCount |-> 1]])
       IN GroupReduce(Tail(items), next)

\* Object.values(...)
groupBySet(items) ==
  LET acc == GroupReduce(items, <<>>)
  IN [i \in 1..Len(acc) |-> acc[i].value]

enrichStyles(styleMetas, list) ==
  [i \in 1..Len(list) |-> enrichStyle(styleMetas, list[i])]

enrichComps(componentMetas, list) ==
  [i \in 1..Len(list) |-> enrichComp(componentMetas, list[i])]

deletedComps(list) == [i \in 1..Len(list) |-> deletedComp(list[i])]

hasAdded(webhook) ==
  Len(webhook.created_variables) + Len(webhook.created_styles)
    + Len(webhook.created_components) > 0

hasDeleted(webhook) ==
  Len(webhook.deleted_variables) + Len(webhook.deleted_styles)
    + Len(webhook.deleted_components) > 0

\* faulty variant: an addition is looked at before a deletion
NewVersionAddedFirst(currentVersion, added, deleted) ==
  LET v == ParseVersion(currentVersion)
  IN IF v[1] >= 1
     THEN IF added THEN FormatVersion(v[1], v[2] + 1, 0)
          ELSE IF deleted THEN FormatVersion(v[1] + 1, 0, 0)
          ELSE FormatVersion(v[1], v[2], v[3] + 1)
     ELSE IF added \/ deleted THEN FormatVersion(0, v[2] + 1, 0)
          ELSE FormatVersion(0, v[2], v[3] + 1)

\* faulty variant: no separate rule below 1.0.0
NewVersionNoPreRelease(currentVersion, added, deleted) ==
  LET v == ParseVersion(currentVersion)
  IN IF deleted THEN FormatVersion(v[1] + 1, 0, 0)
     ELSE IF added THEN FormatVersion(v[1], v[2] + 1, 0)
     ELSE FormatVersion(v[1], v[2], v[3] + 1)

\* the SemVer block
NewVersion(currentVersion, added, deleted) ==
  LET v == ParseVersion(currentVersion)
      major == v[1]
      minor == v[2]
      patch == v[3]
  IN IF major >= 1
     THEN IF deleted THEN FormatVersion(major + 1, 0, 0)
          ELSE IF added THEN FormatVersion(major, minor + 1, 0)
          ELSE FormatVersion(major, minor, patch + 1)
     ELSE IF added \/ deleted THEN FormatVersion(0, minor + 1, 0)
          ELSE FormatVersion(0, minor, patch + 1)

\* "### <label>\n<bullets>\n\n", nothing for an empty list
MdSection(n) ==
  IF n > 0 THEN <<TextLine>> \o [i \in 1..n |-> TextLine] \o <<BlankLine>>
  ELSE <<>>

\* 1 when the list is not empty (the single summary line of modified variables)
SummaryCount(list) == IF Len(list) > 0 THEN 1 ELSE 0

buildReport(webhook, readResult, fetchResult) ==
  LET stylesAdded == enrichStyles(fetchResult.styleMetas, webhook.created_styles)
      stylesModified == enrichStyles(fetchResult.styleMetas, webhook.modified_styles)
      componentsAdded == enrichComps(fetchResult.componentMetas, webhook.created_components)
      componentsDeleted == deletedComps(webhook.deleted_components)
      componentsModified == enrichComps(fetchResult.componentMetas, webhook.modified_components)
      groupedAdded == groupBySet(componentsAdded)
      groupedDeleted == groupBySet(componentsDeleted)
      groupedModified == groupBySet(componentsModified)
      newVersion == NewVersion(readResult.currentVersion,
                               hasAdded(webhook), hasDeleted(webhook))
      md == <<VersionHeading(newVersion), BlankLine>>
            \o MdSection(Len(webhook.created_variables) + Len(stylesAdded)
                         + Len(groupedAdded))
            \o MdSection(SummaryCount(webhook.modified_variables)
                         + Len(stylesModified) + Len(groupedModified))
            \o MdSection(Len(webhook.deleted_variables) + Len(webhook.deleted_styles)
                         + Len(groupedDeleted))
  IN [newVersion |-> newVersion,
      changelogMd |-> md,
      variablesAdded |-> webhook.created_variables,
      variablesDeleted |-> webhook.deleted_variables,
      variablesModified |-> webhook.modified_variables,
      stylesAdded |-> stylesAdded,
      stylesDeleted |-> webhook.deleted_styles,
      stylesModified |-> stylesModified,
      groupedAdded |-> groupedAdded,
      groupedDeleted |-> groupedDeleted,
      groupedModified |-> groupedModified]

\* --------------------------------------------------------- 6. notifySlack
\* slackLink(name, nodeId), with the " *(n)*" suffix of a group of n > 1
SlackItem(name, nodeId, variantCount) ==
  [text |-> name, link |-> IF Truthy(nodeId) THEN nodeId ELSE Undefined,
   count |-> IF variantCount > 1 THEN variantCount ELSE 0]

\* items of variables and of deleted styles: the bare name
NameItems(list) == [i \in 1..Len(list) |-> SlackItem(list[i].name, Undefined, 1)]

StyleItems(list) == [i \in 1..Len(list) |-> SlackItem(list[i].name, list[i].nodeId, 1)]

GroupItems(list) ==
  [i \in 1..Len(list) |-> SlackItem(list[i].setName, list[i].nodeId, list[i].variantCount)]

DeletedGroupItems(list) ==
  [i \in 1..Len(list) |-> SlackItem(list[i].setName, Undefined, list[i].variantCount)]

NullSection == [label |-> Undefined, shown |-> <<>>, extra |-> 0]

\* faulty variant: the omitted-items line starts one item early
buildSectionOffByOne(label, items) ==
  IF Len(items) = 0 THEN NullSection
  ELSE [label |-> label,
        shown |-> SubSeq(items, 1, Min(Len(items), MAX_ITEMS)),
        extra |-> IF Len(items) >= MAX_ITEMS THEN Len(items) - MAX_ITEMS + 1 ELSE 0]

\* `extra` is the number stated by the trailing "...and N more" line, 0 when
\* the line is absent
buildSection(label, items) ==
  IF Len(items) = 0 THEN NullSection
  ELSE [label |-> label,
        shown |-> SubSeq(items, 1, Min(Len(items), MAX_ITEMS)),
        extra |-> IF Len(items) > MAX_ITEMS THEN Len(items) - MAX_ITEMS ELSE 0]

addedItems(r) ==
  NameItems(r.variablesAdded) \o StyleItems(r.stylesAdded) \o GroupItems(r.groupedAdded)

modifiedItems(r) ==
  (IF Len(r.variablesModified) > 0
   THEN <<[text |-> "modified variables", link |-> Undefined,
           count |-> Len(r.variablesModified)]>>
   ELSE <<>>)
  \o StyleItems(r.stylesModified) \o GroupItems(r.groupedModified)

deletedItems(r) ==
  NameItems(r.variablesDeleted) \o NameItems(r.stylesDeleted)
  \o DeletedGroupItems(r.groupedDeleted)

IsSection(s) == s.label # Undefined

\* the three blocks posted to Slack
slackBlocks(webhook, r) ==
  LET sections == SelectSeq(<<buildSection("added", addedItems(r)),
                              buildSection("modified", modifiedItems(r)),
                              buildSection("deleted", deletedItems(r))>>,
                            IsSection)
  IN [version |-> r.newVersion,
      deployer |-> OrElse(webhook.handle, "Unknown"),
      placeholder |-> sections = <<>>,    \* itemsText || "no changes"
      sections |-> sections]

\* ------------------------------------------------------------------ state
VARIABLES
  pc,               \* where main() stands, "exited" once the process has ended
  run,              \* number of the invocation
  payload,          \* process.env.WEBHOOK_PAYLOAD
  workspaceFile,    \* changelog/CHANGELOG.md of the checkout
  branch,           \* head of main: the committed changelog and commit message
  webhook,          \* parseWebhook's result
  readResult,       \* readGitHub's result
  slots,            \* the lookup promises of fetchFigma, per kind
  figmaCalls,       \* requests sent to api.figma.com by this invocation
  fetchResult,      \* fetchFigma's result
  reportResult,     \* buildReport's result
  updatedChangelog, \* writeGitHub's local
  slack,            \* posts sent to the Slack webhook by this invocation
  exitCode,         \* process exit status, -1 while running
  error,            \* what main().catch received
  console           \* console.log / console.error lines of this invocation

vars ==
  <<pc, run, payload, workspaceFile, branch, webhook, readResult, slots,
    figmaCalls, fetchResult, reportResult, updatedChangelog, slack, exitCode,
    error, console>>

SeqUpTo(S, n) == UNION {[1..k -> S] : k \in 0..n}

\* ------------------------------------------------------------------ main()
\* faulty variant: notifySlack is called before writeGitHub
StageAfterNotifyFirst(stage) ==
  CASE stage = "parse" -> "read"
    [] stage = "read" -> "fetch"
    [] stage = "fetch" -> "build"
    [] stage = "build" -> "notify"
    [] stage = "notify" -> "write"
    [] OTHER -> "return"

\* the order of the stages in main(); "return" ends it with status 0
StageAfter(stage) ==
  CASE stage = "parse" -> "read"
    [] stage = "read" -> "fetch"
    [] stage = "fetch" -> "build"
    [] stage = "build" -> "write"
    [] stage = "write" -> "notify"
    [] OTHER -> "return"

\* the stage after `from` is entered, or main() returns
Continue(from) ==
  /\ pc' = IF StageAfter(from) = "return" THEN "exited" ELSE StageAfter(from)
  /\ exitCode' = IF StageAfter(from) = "return" THEN 0 ELSE exitCode
  /\ error' = error

\* main().catch: console.error(e); process.exit(1)
Throw(e) ==
  /\ pc' = "exited"
  /\ exitCode' = 1
  /\ error' = e

ParseWebhook ==
  /\ pc = "parse"
  /\ LET r == parseWebhook(payload)
     IN /\ webhook' = IF r = "webhook" THEN payload ELSE webhook
        /\ IF r = "throw"
           THEN Throw("SyntaxError") /\ console' = Append(console, <<"error", "SyntaxError">>)
           ELSE IF r = "null"
           THEN /\ pc' = "exited"
                /\ exitCode' = 0
                /\ error' = error
                /\ console' = Append(console,
                                IF payload.event_type = "PING"
                                THEN <<"PING received, skipping", "">>
                                ELSE <<"Invalid passcode, skipping", "">>)
           ELSE Continue("parse") /\ console' = console
  /\ UNCHANGED <<run, payload, workspaceFile, branch, readResult, slots,
                 figmaCalls, fetchResult, reportResult, updatedChangelog, slack>>

ReadGitHub ==
  /\ pc = "read"
  /\ readResult' = ReadResult(workspaceFile)
  /\ console' = Append(console, <<"Current version", readResult'.currentVersion>>)
  /\ Continue("read")
  /\ UNCHANGED <<run, payload, workspaceFile, branch, webhook, slots, figmaCalls,
                 fetchResult, reportResult, updatedChangelog, slack>>

\* fetchFigma up to its await: every lookup is sent
FetchFigma ==
  /\ pc = "fetch"
  /\ slots' = [components |-> PendingSlots(componentKeys(webhook)),
               styles |-> PendingSlots(styleKeys(webhook))]
  /\ figmaCalls' = figmaCalls
       \o Requests("components", componentKeys(webhook))
       \o Requests("styles", styleKeys(webhook))
  /\ pc' = "await"
  /\ UNCHANGED <<run, payload, workspaceFile, branch, webhook, readResult,
                 fetchResult, reportResult, updatedChangelog, slack, exitCode,
                 error, console>>

\* one lookup is answered, in any order
SettleLookup ==
  /\ pc = "await"
  /\ \E kind \in {"components", "styles"} :
       \E i \in 1..Len(slots[kind]) :
         \E outcome \in Outcomes :
           /\ slots[kind][i].state = "pending"
           /\ slots' = [slots EXCEPT ![kind][i] =
                          CaughtLookup(IF kind = "components" THEN "component" ELSE "style",
                                       slots[kind][i].key, outcome)]
  /\ UNCHANGED <<pc, run, payload, workspaceFile, branch, webhook, readResult,
                 figmaCalls, fetchResult, reportResult, updatedChangelog, slack,
                 exitCode, error, console>>

AllSlots == slots.components \o slots.styles

\* the await of the two Promise.all: fulfilled when every lookup is, rejected
\* as soon as one is
FetchJoin ==
  /\ pc = "await"
  /\ IF \E i \in 1..Len(AllSlots) : AllSlots[i].state = "rejected"
     THEN /\ Throw("Figma API")
          /\ console' = Append(console, <<"error", "Figma API">>)
          /\ fetchResult' = fetchResult
     ELSE /\ \A i \in 1..Len(AllSlots) : AllSlots[i].state = "fulfilled"
          /\ fetchResult' = [componentMetas |-> slots.components,
                             styleMetas |-> slots.styles]
          /\ console' = Append(console,
                          <<"Fetched", <<Len(slots.components), Len(slots.styles)>>>>)
          /\ Continue("fetch")
  /\ UNCHANGED <<run, payload, workspaceFile, branch, webhook, readResult, slots,
                 figmaCalls, reportResult, updatedChangelog, slack>>

BuildReport ==
  /\ pc = "build"
  /\ LET r == buildReport(webhook, readResult, fetchResult)
     IN IF webhook.timestamp = "invalid"
        THEN \* kst.toISOString() of an Invalid Date
             /\ Throw("RangeError")
             /\ console' = console \o <<<<"New version", r.newVersion>>,
                                        <<"error", "RangeError">>>>
             /\ reportResult' = reportResult
        ELSE /\ reportResult' = r
             /\ console' = Append(console, <<"New version", r.newVersion>>)
             /\ Continue("build")
  /\ UNCHANGED <<run, payload, workspaceFile, branch, webhook, readResult, slots,
                 figmaCalls, fetchResult, updatedChangelog, slack>>

\* the six calls writeGitHub awaits, in order
GitCalls == <<"getRef", "getCommit", "createBlob", "createTree", "createCommit", "updateRef">>

CallIndex(call) == CHOOSE i \in 1..Len(GitCalls) : GitCalls[i] = call

\* writeGitHub up to its first await
WriteGitHub ==
  /\ pc = "write"
  /\ updatedChangelog' = UpdatedChangelog(readResult.changelogContent,
                                          reportResult.changelogMd)
  /\ pc' = GitCalls[1]
  /\ UNCHANGED <<run, payload, workspaceFile, branch, webhook, readResult, slots,
                 figmaCalls, fetchResult, reportResult, slack, exitCode, error,
                 console>>

\* the awaited GitHub call answers; updateRef moves the branch
GitHubCall ==
  /\ \E i \in 1..Len(GitCalls) : pc = GitCalls[i]
  /\ \E ok \in BOOLEAN :
       IF ~ok
       THEN /\ Throw(pc)
            /\ console' = Append(console, <<"error", pc>>)
            /\ branch' = branch
       ELSE IF pc = "updateRef"
       THEN /\ branch' = [changelog |-> updatedChangelog,
                          message |-> reportResult.newVersion]
            /\ console' = Append(console, <<"Committed", reportResult.newVersion>>)
            /\ Continue("write")
       ELSE /\ pc' = GitCalls[CallIndex(pc) + 1]
            /\ UNCHANGED <<branch, console, exitCode, error>>
  /\ UNCHANGED <<run, payload, workspaceFile, webhook, readResult, slots,
                 figmaCalls, fetchResult, reportResult, updatedChangelog, slack>>

\* notifySlack: the post is sent; a rejected fetch or a non-ok answer throws
NotifySlack ==
  /\ pc = "notify"
  /\ \E ok \in BOOLEAN :
       /\ slack' = Append(slack, [blocks |-> slackBlocks(webhook, reportResult),
                                  ok |-> ok])
       /\ IF ok
          THEN /\ console' = Append(console, <<"Slack notification sent", "">>)
               /\ Continue("notify")
          ELSE /\ Throw("Slack notification failed")
               /\ console' = Append(console, <<"error", "Slack notification failed">>)
  /\ UNCHANGED <<run, payload, workspaceFile, branch, webhook, readResult, slots,
                 figmaCalls, fetchResult, reportResult, updatedChangelog>>

\* --------------------------------------------------------- input domains
Lists(cv, dv, mv, cs, ds, ms, cc, dc, mc) ==
  [created_variables |-> cv, deleted_variables |-> dv, modified_variables |-> mv,
   created_styles |-> cs, deleted_styles |-> ds, modified_styles |-> ms,
   created_components |-> cc, deleted_components |-> dc, modified_components |-> mc]

Event(lists) == Payload(TRUE, "LIBRARY_PUBLISH", PASSCODE, "valid", "june", lists)

Opt(x) == {<<>>, <<x>>}

SomeLists == Lists(<<VarAsset(1)>>, <<>>, <<>>, <<StyleAsset("s1")>>, <<>>, <<>>,
                   <<>>, <<>>, <<CompAsset("c1")>>)

PayloadsMain ==
  {Payload(FALSE, Undefined, Undefined, Undefined, Undefined, Lists(<<>>, <<>>, <<>>, <<>>, <<>>, <<>>, <<>>, <<>>, <<>>)),
   Payload(TRUE, "PING", PASSCODE, "valid", "june", SomeLists),
   Payload(TRUE, "PING", Undefined, Undefined, Undefined, SomeLists),
   Payload(TRUE, "LIBRARY_PUBLISH", "guess", "valid", "june", SomeLists),
   Payload(TRUE, "LIBRARY_PUBLISH", PASSCODE, "invalid", "june", SomeLists),
   Payload(TRUE, "LIBRARY_PUBLISH", PASSCODE, Undefined, Undefined, SomeLists)}
  \cup {Event(Lists(cv, <<>>, <<>>, <<>>, ds, <<>>, <<>>, <<>>, mc)) :
          cv \in Opt(VarAsset(1)), ds \in Opt(StyleAsset("s2")),
          mc \in Opt(CompAsset("c1"))}

HeadingsMain ==
  {VersionHeading(<<NumStr(0, 0), NumStr(0, 1), NumStr(0, 0)>>),
   VersionHeading(<<NumStr(0, 1), NumStr(0, 0), NumStr(0, 1)>>),
   VersionHeading(<<NumStr(1, 1), NumStr(0, 2), NumStr(0, 0)>>)}

ChangelogsMain ==
  SeqUpTo({TextLine, BlankLine, DigitHeading} \cup HeadingsMain, MaxLines)

\* a fresh process on a checkout of the branch
Start(p, content) ==
  /\ pc = "parse"
  /\ payload = p
  /\ workspaceFile = content
  /\ webhook = Undefined
  /\ readResult = Undefined
  /\ slots = [components |-> <<>>, styles |-> <<>>]
  /\ figmaCalls = <<>>
  /\ fetchResult = Undefined
  /\ reportResult = Undefined
  /\ updatedChangelog = Undefined
  /\ slack = <<>>
  /\ exitCode = -1
  /\ error = Undefined
  /\ console = <<>>

\* the state fetchFigma leaves behind when the lookups of the component keys
\* were answered as `co` and those of the style keys as `so`
Fetched(p, content, co, so) ==
  /\ payload = p
  /\ workspaceFile = content
  /\ webhook = p
  /\ readResult = ReadResult(content)
  /\ slots = [components |-> [i \in 1..Len(componentKeys(p)) |->
                                CaughtLookup("component", componentKeys(p)[i], co[i])],
              styles |-> [i \in 1..Len(styleKeys(p)) |->
                            CaughtLookup("style", styleKeys(p)[i], so[i])]]
  /\ figmaCalls = Requests("components", componentKeys(p))
                  \o Requests("styles", styleKeys(p))
  /\ fetchResult = [componentMetas |-> slots.components, styleMetas |-> slots.styles]
  /\ slack = <<>>
  /\ exitCode = -1
  /\ error = Undefined

\* main() about to call buildReport
AtBuildReport(p, content, co, so) ==
  /\ pc = "build"
  /\ run = 1
  /\ branch = [changelog |-> content, message |-> NoVer]
  /\ Fetched(p, content, co, so)
  /\ reportResult = Undefined
  /\ updatedChangelog = Undefined
  /\ console = <<<<"Current version", readResult.currentVersion>>,
                 <<"Fetched", <<Len(slots.components), Len(slots.styles)>>>>>>

\* main() about to call notifySlack, the commit made
AtNotifySlack(p, content, co, so) ==
  /\ pc = "notify"
  /\ run = 1
  /\ Fetched(p, content, co, so)
  /\ reportResult = buildReport(webhook, readResult, fetchResult)
  /\ updatedChangelog = UpdatedChangelog(content, reportResult.changelogMd)
  /\ branch = [changelog |-> updatedChangelog, message |-> reportResult.newVersion]
  /\ console = <<<<"Current version", readResult.currentVersion>>,
                 <<"Fetched", <<Len(slots.components), Len(slots.styles)>>>>,
                 <<"New version", reportResult.newVersion>>,
                 <<"Committed", reportResult.newVersion>>>>

\* every lookup answered the same way
All(keys, outcome) == [i \in 1..Len(keys) |-> outcome]

\* the workflow is triggered again, after the previous run has ended
PayloadsRuns ==
  {Payload(TRUE, "PING", PASSCODE, "valid", "june", SomeLists),
   Event(Lists(<<>>, <<>>, <<>>, <<>>, <<>>, <<>>, <<>>, <<>>, <<>>)),
   Event(Lists(<<VarAsset(1)>>, <<>>, <<>>, <<>>, <<>>, <<>>, <<>>, <<>>, <<>>)),
   Event(Lists(<<>>, <<>>, <<>>, <<>>, <<StyleAsset("s2")>>, <<>>, <<>>, <<>>, <<>>)),
   Event(Lists(<<>>, <<>>, <<>>, <<>>, <<>>, <<>>, <<>>, <<>>, <<CompAsset("c1")>>))}

NextRun ==
  /\ pc = "exited"
  /\ run < MaxRuns
  /\ run' = run + 1
  /\ branch' = branch
  /\ \E p \in PayloadsRuns :
       /\ pc' = "parse"
       /\ payload' = p
       /\ workspaceFile' = branch.changelog
       /\ webhook' = Undefined
       /\ readResult' = Undefined
       /\ slots' = [components |-> <<>>, styles |-> <<>>]
       /\ figmaCalls' = <<>>
       /\ fetchResult' = Undefined
       /\ reportResult' = Undefined
       /\ updatedChangelog' = Undefined
       /\ slack' = <<>>
       /\ exitCode' = -1
       /\ error' = Undefined
       /\ console' = <<>>

Invocation ==
  \/ ParseWebhook
  \/ ReadGitHub
  \/ FetchFigma
  \/ SettleLookup
  \/ FetchJoin
  \/ BuildReport
  \/ WriteGitHub
  \/ GitHubCall
  \/ NotifySlack

\* ------------------------------------------------------- specifications
\* one invocation, from process start
Init ==
  /\ run = 1
  /\ \E content \in ChangelogsMain : \E p \in PayloadsMain :
       /\ branch = [changelog |-> content, message |-> NoVer]
       /\ Start(p, content)

Next == Invocation

Spec == Init /\ [][Next]_vars

\* invocations in a row, each on a checkout of what the branch holds
InitRuns ==
  /\ run = 1
  /\ \E content \in ChangelogsMain : \E p \in PayloadsRuns :
       /\ branch = [changelog |-> content, message |-> NoVer]
       /\ Start(p, content)

NextRuns == Invocation \/ NextRun

SpecRuns == InitRuns /\ [][NextRuns]_vars

\* one invocation whose created and modified lists vary, duplicates included
FetchComponents == {CompAsset("c1"), CompAsset("c3")}
FetchStyles == {StyleAsset("s1")}

InitFetch ==
  /\ run = 1
  /\ \E cc \in SeqUpTo(FetchComponents, MaxFetchLen) :
       \E mc \in SeqUpTo(FetchComponents, MaxFetchLen) :
         \E cs \in SeqUpTo(FetchStyles, MaxFetchLen) :
           \E ms \in SeqUpTo(FetchStyles, MaxFetchLen) :
             /\ branch = [changelog |-> <<TextLine>>, message |-> NoVer]
             /\ Start(Event(Lists(<<VarAsset(1)>>, <<VarAsset(2)>>, <<VarAsset(3)>>,
                                  cs, <<StyleAsset("s2")>>, ms,
                                  cc, <<CompAsset("c2")>>, mc)),
                      <<TextLine>>)

SpecFetch == InitFetch /\ [][Invocation]_vars

\* buildReport on every combination of empty and non-empty lists, for the
\* versions a heading can carry
HeadingVersions ==
  {<<NumStr(z, a), NumStr(0, b), NumStr(0, c)>> :
     z \in 0..1, a \in 0..MaxVer, b \in 0..MaxVer, c \in 0..MaxVer}

InitSemVer ==
  \E content \in {<<TextLine>>} \cup {<<TextLine, VersionHeading(v)>> : v \in HeadingVersions} :
    \E cv \in Opt(VarAsset(1)), dv \in Opt(VarAsset(2)), mv \in Opt(VarAsset(3)),
       cs \in Opt(StyleAsset("s1")), ds \in Opt(StyleAsset("s2")), ms \in Opt(StyleAsset("s1")),
       cc \in Opt(CompAsset("c1")), dc \in Opt(CompAsset("c3")), mc \in Opt(CompAsset("c2")) :
      LET p == Event(Lists(cv, dv, mv, cs, ds, ms, cc, dc, mc))
      IN AtBuildReport(p, content, All(componentKeys(p), "ok"), All(styleKeys(p), "ok"))

SpecSemVer == InitSemVer /\ [][BuildReport]_vars

\* buildReport on one bucket of components, every lookup answered either way
GroupComponents == {CompAsset(k) : k \in CompKeys}

InitGroup ==
  \E items \in SeqUpTo(GroupComponents, MaxGroupLen) :
    \E bucket \in {"created", "modified", "deleted"} :
      LET p == Event(Lists(<<>>, <<>>, <<>>, <<>>, <<>>, <<>>,
                           IF bucket = "created" THEN items ELSE <<>>,
                           IF bucket = "deleted" THEN items ELSE <<>>,
                           IF bucket = "modified" THEN items ELSE <<>>))
      IN \E co \in [1..Len(componentKeys(p)) -> Outcomes] :
           AtBuildReport(p, <<TextLine>>, co, <<>>)

SpecGroup == InitGroup /\ [][BuildReport]_vars

\* notifySlack on sections of every length up to MaxSlackItems
InitSlack ==
  \E a \in 0..MaxSlackItems, m \in 0..MaxSlackItems, d \in 0..MaxSlackItems :
    LET p == Event(Lists([i \in 1..a |-> VarAsset(i)], [i \in 1..d |-> VarAsset(i)], <<>>,
                         <<>>, <<>>,
                         [i \in 1..m |-> Asset("style" \o ToString(i), "s" \o ToString(i))],
                         <<>>, <<>>, <<>>))
    IN AtNotifySlack(p, <<TextLine>>, <<>>,
                     [i \in 1..m |-> IF i % 2 = 0 THEN "ok" ELSE "error"])

SpecSlack == InitSlack /\ [][NotifySlack]_vars

\* ------------------------------------------------------------- properties
Range(seq) == {seq[i] : i \in 1..Len(seq)}

Major(vs) == ParseVersion(vs)[1]
Minor(vs) == ParseVersion(vs)[2]
Patch(vs) == ParseVersion(vs)[3]

AnyAdded(w) ==
  w.created_variables # <<>> \/ w.created_styles # <<>> \/ w.created_components # <<>>

AnyDeleted(w) ==
  w.deleted_variables # <<>> \/ w.deleted_styles # <<>> \/ w.deleted_components # <<>>

AnyModified(w) ==
  w.modified_variables # <<>> \/ w.modified_styles # <<>> \/ w.modified_components # <<>>

\* buildReport has returned
ReportBuilt == pc \in {"write", "notify"} \/ \E i \in 1..Len(GitCalls) : pc = GitCalls[i]

\* C1: from a version with major >= 1, a deletion gives (major+1).0.0 whether
\* or not something was added, an addition without deletion gives
\* major.(minor+1).0, whatever the modified lists hold.
C1_MajorTiers ==
  (pc = "write" /\ Major(readResult.currentVersion) >= 1) =>
    LET cur == readResult.currentVersion
    IN /\ AnyDeleted(webhook) =>
            reportResult.newVersion = FormatVersion(Major(cur) + 1, 0, 0)
       /\ (~AnyDeleted(webhook) /\ AnyAdded(webhook)) =>
            reportResult.newVersion = FormatVersion(Major(cur), Minor(cur) + 1, 0)

C1_Witness ==
  /\ pc = "write"
  /\ Major(readResult.currentVersion) >= 1
  /\ AnyDeleted(webhook) /\ AnyAdded(webhook) /\ AnyModified(webhook)
  /\ reportResult.newVersion = FormatVersion(Major(readResult.currentVersion) + 1, 0, 0)

\* C2: from a version 0.minor.patch, additions, deletions or both give
\* 0.(minor+1).0; with nothing added and nothing deleted the result is
\* major.minor.(patch+1) for any major.
C2_PreReleaseAndPatch ==
  pc = "write" =>
    LET cur == readResult.currentVersion
    IN /\ (Major(cur) = 0 /\ (AnyAdded(webhook) \/ AnyDeleted(webhook))) =>
            reportResult.newVersion = FormatVersion(0, Minor(cur) + 1, 0)
       /\ (~AnyAdded(webhook) /\ ~AnyDeleted(webhook)) =>
            reportResult.newVersion = FormatVersion(Major(cur), Minor(cur), Patch(cur) + 1)

C2_Witness ==
  /\ pc = "write"
  /\ Major(readResult.currentVersion) = 0
  /\ AnyDeleted(webhook) /\ ~AnyAdded(webhook)
  /\ reportResult.newVersion = FormatVersion(0, Minor(readResult.currentVersion) + 1, 0)

Ignorable(p) == p.valid /\ (p.event_type = "PING" \/ p.passcode # PASSCODE)

\* C3: on a PING or a passcode mismatch the run ends with status 0, having
\* sent no lookup, left the branch as it was and posted nothing.
C3_IgnoredEventIsNoOp ==
  Ignorable(payload) =>
    /\ pc \in {"parse", "exited"}
    /\ pc = "exited" => exitCode = 0
    /\ figmaCalls = <<>>
    /\ slack = <<>>
    /\ branch = [changelog |-> workspaceFile, message |-> NoVer]

C3_Witness ==
  /\ pc = "exited"
  /\ exitCode = 0
  /\ payload.valid /\ payload.event_type # "PING" /\ payload.passcode # PASSCODE
  /\ Len(payload.created_styles) > 0

FetchDone == pc \notin {"parse", "read", "fetch", "await"}

\* no lookup of this key was answered successfully
LookupFailed(metas, key) == \A i \in 1..Len(metas) : metas[i].meta.key # key

LookupResponse(kind, key) ==
  IF kind = "components" THEN ComponentResponse(key) ELSE StyleResponse(key)

\* C4: whatever lookups fail, fetchFigma returns one slot per requested key,
\* the answered lookups keep their own answer, the run is never ended by a
\* lookup, and an asset whose key got no answer has no node id and, if a
\* component, its own name as grouping key.
C4_LookupFailuresAreSoft ==
  /\ \A kind \in {"components", "styles"} : \A i \in 1..Len(slots[kind]) :
       /\ slots[kind][i].state \in {"pending", "fulfilled"}
       /\ (slots[kind][i].state = "fulfilled" /\ slots[kind][i].error = Undefined) =>
            slots[kind][i].meta = LookupResponse(kind, slots[kind][i].key)
  /\ error # "Figma API"
  /\ (FetchDone /\ webhook.valid) =>
       /\ MapKeys(fetchResult.componentMetas) = componentKeys(webhook)
       /\ MapKeys(fetchResult.styleMetas) = styleKeys(webhook)
       /\ \A c \in Range(webhook.created_components \o webhook.modified_components) :
            LookupFailed(fetchResult.componentMetas, c.key) =>
              /\ enrichComp(fetchResult.componentMetas, c).nodeId = Undefined
              /\ enrichComp(fetchResult.componentMetas, c).setName = c.name
  /\ ReportBuilt =>
       /\ \A i \in 1..Len(reportResult.stylesAdded) :
            LookupFailed(fetchResult.styleMetas, reportResult.stylesAdded[i].key) =>
              reportResult.stylesAdded[i].nodeId = Undefined
       /\ \A i \in 1..Len(reportResult.stylesModified) :
            LookupFailed(fetchResult.styleMetas, reportResult.stylesModified[i].key) =>
              reportResult.stylesModified[i].nodeId = Undefined

C4_Witness ==
  /\ pc = "exited"
  /\ exitCode = 0
  /\ Len(slack) = 1
  /\ branch.message = reportResult.newVersion
  /\ Len(fetchResult.componentMetas) = 2
  /\ fetchResult.componentMetas[1].error # Undefined
  /\ fetchResult.componentMetas[2].error = Undefined
  /\ reportResult.groupedAdded[1].nodeId = Undefined
  /\ reportResult.groupedAdded[1].setName = webhook.created_components[1].name

\* the commit of this run is on the branch
Committed ==
  /\ branch.message # NoVer
  /\ branch.message = reportResult.newVersion
  /\ branch.changelog = updatedChangelog

GitCallNames == {GitCalls[i] : i \in 1..Len(GitCalls)}

\* C5: a post to Slack is only ever sent with the commit on the branch; a
\* failed GitHub call ends the run with status 1 and nothing posted; a failed
\* post ends it with status 1 and the commit still on the branch.
C5_NotifyOnlyAfterCommit ==
  /\ slack # <<>> => Committed
  /\ (pc = "exited" /\ error \in GitCallNames) => (slack = <<>> /\ exitCode = 1)
  /\ (pc = "exited" /\ slack # <<>> /\ ~slack[1].ok) => (exitCode = 1 /\ Committed)

C5_Witness ==
  /\ pc = "exited"
  /\ exitCode = 1
  /\ Len(slack) = 1 /\ ~slack[1].ok
  /\ Committed

\* the insertion the claim describes: before the first version heading as
\* readGitHub recognises it, else after the trimmed content
InsertBeforeVersionHeading(content, md) ==
  LET i == VersionMatchIndex(content)
  IN IF i # 0
     THEN SubSeq(content, 1, i - 1) \o md \o SubSeq(content, i, Len(content))
     ELSE (IF TrimEnd(content) = <<>> THEN <<BlankLine, BlankLine>>
           ELSE TrimEnd(content) \o <<BlankLine>>) \o md

\* C6: the new section goes immediately before the first line of the previous
\* changelog that readGitHub takes for a version heading, the rest unchanged,
\* and after the trimmed content when there is no such line.
C6_InsertedBeforeFirstVersionHeading ==
  (pc \in GitCallNames \cup {"notify"}) =>
    updatedChangelog =
      InsertBeforeVersionHeading(readResult.changelogContent, reportResult.changelogMd)

CountCalls(kind, key) ==
  Cardinality({i \in 1..Len(figmaCalls) : figmaCalls[i] = <<kind, key>>})

\* C7: one invocation sends exactly one lookup for each distinct key among the
\* created and modified components (styles), and none for any other key.
C7_OneLookupPerUniqueKey ==
  (FetchDone /\ webhook.valid) =>
    /\ \A k \in Range(componentKeys(webhook)) : CountCalls("components", k) = 1
    /\ \A k \in Range(styleKeys(webhook)) : CountCalls("styles", k) = 1
    /\ \A i \in 1..Len(figmaCalls) :
         \/ figmaCalls[i][1] = "components" /\ figmaCalls[i][2] \in Range(componentKeys(webhook))
         \/ figmaCalls[i][1] = "styles" /\ figmaCalls[i][2] \in Range(styleKeys(webhook))

\* the components of the three buckets as groupBySet receives them
EnrichedBucket(bucket) ==
  CASE bucket = "added" ->
         enrichComps(fetchResult.componentMetas, webhook.created_components)
    [] bucket = "modified" ->
         enrichComps(fetchResult.componentMetas, webhook.modified_components)
    [] OTHER -> deletedComps(webhook.deleted_components)

GroupedBucket(bucket) ==
  CASE bucket = "added" -> reportResult.groupedAdded
    [] bucket = "modified" -> reportResult.groupedModified
    [] OTHER -> reportResult.groupedDeleted

Reorderings(items) ==
  {[i \in 1..Len(items) |-> items[f[i]]] :
     f \in {g \in [1..Len(items) -> 1..Len(items)] :
              \A a, b \in 1..Len(items) : g[a] = g[b] => a = b}}

RECURSIVE SumVariantCounts(_)
SumVariantCounts(groups) ==
  IF groups = <<>> THEN 0
  ELSE Head(groups).variantCount + SumVariantCounts(Tail(groups))

GroupKeys(groups) == {groups[i].setName : i \in 1..Len(groups)}

Members(items, key) == {i \in 1..Len(items) : items[i].setName = key}

\* C8: for a bucket and any reordering of it, the group keys and each group's
\* variantCount are the same, a variantCount is the number of members with that
\* grouping key, and the variantCounts add up to the length of the bucket.
C8_GroupingCountsMembers ==
  pc = "write" =>
    \A bucket \in {"added", "modified", "deleted"} :
      LET items == EnrichedBucket(bucket)
          groups == GroupedBucket(bucket)
      IN /\ \A i \in 1..Len(groups) :
              groups[i].variantCount = Cardinality(Members(items, groups[i].setName))
         /\ SumVariantCounts(groups) = Len(items)
         /\ \A perm \in Reorderings(items) :
              LET other == groupBySet(perm)
              IN /\ GroupKeys(other) = GroupKeys(groups)
                 /\ \A i \in 1..Len(groups) : \A j \in 1..Len(other) :
                      other[j].setName = groups[i].setName =>
                        other[j].variantCount = groups[i].variantCount

SectionsLabelled(blocks, label) ==
  SelectSeq(blocks.sections, LAMBDA sec : sec.label = label)

SectionAsClaimed(blocks, label, items) ==
  LET n == Len(items)
      found == SectionsLabelled(blocks, label)
  IN /\ n = 0 => found = <<>>
     /\ n >= 1 => Len(found) = 1
     /\ (1 <= n /\ n <= 20) => (found[1].shown = items /\ found[1].extra = 0)
     /\ n > 20 => (found[1].shown = SubSeq(items, 1, 20) /\ found[1].extra = n - 20)

\* C9: a notification section of n items is absent for n = 0, shows all items
\* in order and no omitted-items line for 1 <= n <= 20, shows the first 20 and
\* a line stating n - 20 for n > 20; with all three empty the body is the
\* placeholder.
C9_SectionTruncation ==
  slack # <<>> =>
    LET blocks == slack[1].blocks
        added == addedItems(reportResult)
        modified == modifiedItems(reportResult)
        deleted == deletedItems(reportResult)
    IN /\ SectionAsClaimed(blocks, "added", added)
       /\ SectionAsClaimed(blocks, "modified", modified)
       /\ SectionAsClaimed(blocks, "deleted", deleted)
       /\ blocks.placeholder <=> (added = <<>> /\ modified = <<>> /\ deleted = <<>>)
       /\ blocks.placeholder => blocks.sections = <<>>

C9_Witness ==
  /\ Len(slack) = 1
  /\ Len(addedItems(reportResult)) = 21
  /\ Len(modifiedItems(reportResult)) = 20
  /\ Len(deletedItems(reportResult)) = 0
  /\ Len(slack[1].blocks.sections) = 2
  /\ slack[1].blocks.sections[1].extra = 1
  /\ slack[1].blocks.sections[2].extra = 0

\* (major, minor, patch) of a before that of b, lexicographically
VersionBefore(a, b) ==
  \/ Major(a) < Major(b)
  \/ Major(a) = Major(b) /\ Minor(a) < Minor(b)
  \/ Major(a) = Major(b) /\ Minor(a) = Minor(b) /\ Patch(a) < Patch(b)

====
